---- MODULE Spec2Model ----
(***************************************************************************)
(* Model of the starzi search-and-localization pipeline:                   *)
(*   - searchNowPlayingMovies (app/actions/searchMovies), the cached       *)
(*     search use case with its external actor lookup;                     *)
(*   - MoviesDAL.getBestRatedMoviePosters, the cached poster read;         *)
(*   - MoviesDAL.transformToLanguageSpecific, the projection of a fully    *)
(*     populated movie to one language.                                    *)
(*                                                                         *)
(* Text values (titles, names, queries, URLs) are sequences of one-letter  *)
(* strings, so that trim, case folding and substring search are computed.  *)
(* A JS null is the value Null; a JS undefined object (array[0] of an      *)
(* empty array, a failed find) is the empty option <<>>, a defined object  *)
(* x is the option <<x>>.                                                  *)
(***************************************************************************)
EXTENDS Integers, Sequences, FiniteSets, TLC

----------------------------------------------------------------------------
(* Bounds of the model *)

\* concurrent search requests in flight
NumReq == 2
\* search calls in one behaviour
MaxCalls == 2
\* longest translation / genre / cast / trailer list of a projected movie
MaxTranslations == 2
MaxGenres == 2
MaxCast == 2
MaxTrailers == 2
\* getBestRatedMoviePosters calls in one behaviour, and the largest limit
MaxPosterCalls == 3
MaxLimit == 2
\* largest total / page size fed to the pagination arithmetic
MaxTotal == 26
MaxPageSize == 102
\* concurrent upsert calls in flight, and upsert calls in one behaviour
NumWriters == 2
MaxWrites == 2

----------------------------------------------------------------------------
(* Values *)

Null == <<"null">>

he_IL == "he_IL"
en_US == "en_US"
Languages == {he_IL, en_US}

\* a Date, as the day it falls on; distinct from Null
Date(day) == <<"date", day>>

\* a number or an enum member in a nullable column; distinct from Null
Val(v) == <<"value", v>>

\* JS truthiness of a string | null value
Truthy(s) == s # Null /\ s # <<>>

\* a || b on string | null values
OrElse(a, b) == IF Truthy(a) THEN a ELSE b

Min(S) == CHOOSE x \in S : \A y \in S : x <= y

Range(s) == {s[i] : i \in 1..Len(s)}

\* sequences over S of length at most n, without repeated elements
RECURSIVE DistinctSeqs(_, _)
DistinctSeqs(S, n) ==
    IF n = 0 THEN {<<>>}
    ELSE LET shorter == DistinctSeqs(S, n - 1)
             longest == {t \in shorter : Len(t) = n - 1}
         IN shorter \cup {Append(t, x) : <<t, x>> \in {p \in longest \X S : p[2] \notin Range(p[1])}}

\* decimal digits of a natural number, as String(n) gives them
RECURSIVE Digits(_)
Digits(n) ==
    LET d == <<"0", "1", "2", "3", "4", "5", "6", "7", "8", "9">>
    IN IF n < 10 THEN <<d[n + 1]>> ELSE Digits(n \div 10) \o <<d[(n % 10) + 1]>>

UnknownTitle == <<"U", "n", "k", "n", "o", "w", "n", " ", "T", "i", "t", "l", "e">>
UnknownActor == <<"U", "n", "k", "n", "o", "w", "n", " ", "A", "c", "t", "o", "r">>
GenrePrefix == <<"G", "e", "n", "r", "e", " ">>

----------------------------------------------------------------------------
(* MoviesDAL.transformToLanguageSpecific *)

\* Array.prototype.find((t) => t.language === language)
FindByLanguage(translations, language) ==
    LET hits == {i \in 1..Len(translations) : translations[i].language = language}
    IN IF hits = {} THEN <<>> ELSE <<translations[Min(hits)]>>

\* array[0]
FirstOf(translations) ==
    IF translations = <<>> THEN <<>> ELSE <<translations[1]>>

\* PickTranslation without the search for the requested language
PickTranslationFirstOnly(translations, language) == FirstOf(translations)

\* translations.find(...) || translations[0]
PickTranslation(translations, language) ==
    LET found == FindByLanguage(translations, language)
    IN IF found # <<>> THEN found ELSE FirstOf(translations)

\* FieldOr with the fallback applied only to a falsy field, not to a
\* missing translation
FieldOrMissingNull(translation, field, fallback) ==
    IF translation = <<>> THEN Null ELSE OrElse(translation[1][field], fallback)

\* translation?.field || fallback
FieldOr(translation, field, fallback) ==
    IF translation = <<>> THEN fallback ELSE OrElse(translation[1][field], fallback)

TransformGenre(genre, language) ==
    LET genreTranslation == PickTranslation(genre.translations, language)
    IN [id |-> genre.id,
        name |-> FieldOr(genreTranslation, "name", GenrePrefix \o Digits(genre.tmdbId)),
        tmdbId |-> genre.tmdbId]

TransformCast(castMember, language) ==
    LET actorTranslation == PickTranslation(castMember.actor.translations, language)
    IN [id |-> castMember.id,
        character |-> castMember.character,
        order |-> castMember.order,
        actor |-> [id |-> castMember.actor.id,
                   profileUrl |-> castMember.actor.profileUrl,
                   tmdbId |-> castMember.actor.tmdbId,
                   imdbId |-> castMember.actor.imdbId,
                   popularity |-> castMember.actor.popularity,
                   birthday |-> castMember.actor.birthday,
                   deathday |-> castMember.actor.deathday,
                   placeOfBirth |-> castMember.actor.placeOfBirth,
                   name |-> FieldOr(actorTranslation, "name", UnknownActor),
                   biography |-> FieldOr(actorTranslation, "biography", Null)]]

transformToLanguageSpecific(movie, language) ==
    LET translation == PickTranslation(movie.translations, language)
    IN [id |-> movie.id,
        rating |-> movie.rating,
        votes |-> movie.votes,
        releaseDate |-> movie.releaseDate,
        imdbId |-> movie.imdbId,
        originalLanguage |-> movie.originalLanguage,
        tmdbId |-> movie.tmdbId,
        createdAt |-> movie.createdAt,
        updatedAt |-> movie.updatedAt,
        title |-> FieldOr(translation, "title", UnknownTitle),
        description |-> FieldOr(translation, "description", Null),
        originalTitle |-> FieldOr(translation, "originalTitle", Null),
        posterUrl |-> FieldOr(translation, "posterUrl", Null),
        genres |-> [i \in 1..Len(movie.genres) |-> TransformGenre(movie.genres[i], language)],
        runtime |-> movie.runtime,
        trailers |-> movie.trailers,
        cast |-> [i \in 1..Len(movie.cast) |-> TransformCast(movie.cast[i], language)]]

\* getMoviesWithLanguageTranslation returning the projections last first
getMoviesReversed(language, movies) ==
    [i \in 1..Len(movies) |->
        transformToLanguageSpecific(movies[Len(movies) + 1 - i], language)]

\* MoviesDAL.getMoviesWithLanguageTranslation, applied to the listing that
\* getFullyPopulatedMovies returned
getMoviesWithLanguageTranslation(language, movies) ==
    [i \in 1..Len(movies) |-> transformToLanguageSpecific(movies[i], language)]

----------------------------------------------------------------------------
(* Stored entities the inputs are drawn from *)

MovieTranslationPool ==
    {[language |-> he_IL, title |-> <<"a">>, originalTitle |-> <<"A", "b">>,
      description |-> Null, posterUrl |-> <<"p">>],
     [language |-> he_IL, title |-> <<>>, originalTitle |-> Null,
      description |-> <<"d">>, posterUrl |-> Null],
     [language |-> en_US, title |-> <<"b">>, originalTitle |-> <<"b">>,
      description |-> <<"e">>, posterUrl |-> <<"q">>]}

\* a parent has at most one translation per language
OnePerLanguage(translations) ==
    \A i, j \in 1..Len(translations) :
        translations[i].language = translations[j].language => i = j

MovieTranslationSeqs ==
    {s \in DistinctSeqs(MovieTranslationPool, MaxTranslations) : OnePerLanguage(s)}

GenrePool ==
    {[id |-> "g1", tmdbId |-> 28, translations |-> <<>>],
     [id |-> "g2", tmdbId |-> 7,
      translations |-> <<[language |-> he_IL, name |-> <<"x">>]>>],
     [id |-> "g3", tmdbId |-> 12,
      translations |-> <<[language |-> en_US, name |-> <<"c">>],
                         [language |-> he_IL, name |-> <<"d">>]>>],
     [id |-> "g4", tmdbId |-> 105,
      translations |-> <<[language |-> he_IL, name |-> <<>>]>>]}

ActorPool ==
    <<[id |-> "a1", profileUrl |-> Null, tmdbId |-> 501, imdbId |-> "nm1",
       popularity |-> 3, birthday |-> Null, deathday |-> Null, placeOfBirth |-> Null,
       translations |-> <<>>],
      [id |-> "a2", profileUrl |-> <<"u">>, tmdbId |-> 502, imdbId |-> "nm2",
       popularity |-> 9, birthday |-> Date(100), deathday |-> Null, placeOfBirth |-> <<"t">>,
       translations |-> <<[language |-> en_US, name |-> <<"n">>, biography |-> Null]>>],
      [id |-> "a3", profileUrl |-> Null, tmdbId |-> 503, imdbId |-> "nm3",
       popularity |-> 1, birthday |-> Date(200), deathday |-> Date(300), placeOfBirth |-> Null,
       translations |-> <<[language |-> he_IL, name |-> <<"m">>, biography |-> <<"b">>],
                          [language |-> en_US, name |-> <<>>, biography |-> <<>>]>>]>>

\* the cast credits of a movie, one per actor of the pool, by display order
CastPool ==
    [i \in 1..Len(ActorPool) |->
        [id |-> ActorPool[i].id, character |-> IF i = 2 THEN Null ELSE <<"r">>,
         order |-> i - 1, actor |-> ActorPool[i]]]

\* the sub-sequence of s at the positions in idx, in ascending position
RECURSIVE Pick(_, _)
Pick(s, idx) ==
    IF idx = {} THEN <<>>
    ELSE LET i == Min(idx) IN <<s[i]>> \o Pick(s, idx \ {i})

\* cast lists as the store returns them: ordered by order ascending
CastSeqs ==
    {Pick(CastPool, idx) : idx \in {x \in SUBSET (1..Len(CastPool)) : Cardinality(x) <= MaxCast}}

TrailerPool ==
    {[id |-> "t1", url |-> <<"y", "1">>, title |-> <<"T">>, language |-> en_US,
      youtubeId |-> <<"1">>],
     [id |-> "t2", url |-> <<"y", "2">>, title |-> <<>>, language |-> he_IL,
      youtubeId |-> <<"2">>]}

MovieRow(id, imdbId, tmdbId, rating, votes, releaseDate) ==
    [id |-> id, imdbId |-> imdbId, tmdbId |-> tmdbId, rating |-> Val(rating),
     votes |-> Val(votes), status |-> "NOW_PLAYING", releaseDate |-> releaseDate,
     originalLanguage |-> Val(en_US), runtime |-> 90,
     createdAt |-> Date(1), updatedAt |-> Date(2)]

\* a row of the movie table with its relations loaded
Populate(row, translations, genres, trailers, cast) ==
    [id |-> row.id, imdbId |-> row.imdbId, tmdbId |-> row.tmdbId, rating |-> row.rating,
     votes |-> row.votes, status |-> row.status, releaseDate |-> row.releaseDate,
     originalLanguage |-> row.originalLanguage, runtime |-> row.runtime,
     createdAt |-> row.createdAt, updatedAt |-> row.updatedAt,
     translations |-> translations, genres |-> genres, trailers |-> trailers, cast |-> cast]

\* fully populated movies the projection is applied to
ProjectionInputs ==
    {Populate(MovieRow("m0", "tt0", 5, 7, 10, Date(900)), tr, g, t, c) :
        tr \in MovieTranslationSeqs, g \in DistinctSeqs(GenrePool, MaxGenres),
        t \in DistinctSeqs(TrailerPool, MaxTrailers), c \in CastSeqs}

----------------------------------------------------------------------------
(* Text *)

\* String.prototype.trim
RECURSIVE TrimStart(_)
TrimStart(s) == IF s # <<>> /\ Head(s) = " " THEN TrimStart(Tail(s)) ELSE s

RECURSIVE TrimEnd(_)
TrimEnd(s) == IF s # <<>> /\ s[Len(s)] = " " THEN TrimEnd(SubSeq(s, 1, Len(s) - 1)) ELSE s

\* Trim that leaves the whitespace at the end
TrimLeading(s) == TrimStart(s)

Trim(s) == TrimEnd(TrimStart(s))

LowerChar(c) == CASE c = "A" -> "a" [] c = "B" -> "b" [] OTHER -> c

Lower(s) == [i \in 1..Len(s) |-> LowerChar(s[i])]

\* { contains: q, mode: 'insensitive' } on a string | null column
ContainsInsensitive(text, q) ==
    /\ text # Null
    /\ \E i \in 1..(Len(text) - Len(q) + 1) :
        SubSeq(Lower(text), i, i + Len(q) - 1) = Lower(q)

\* String.prototype.split(sep), on a text given as a sequence of lexemes
RECURSIVE Split(_, _)
Split(s, sep) ==
    LET at == {i \in 1..Len(s) : s[i] = sep}
    IN IF at = {} THEN <<s>>
       ELSE <<SubSeq(s, 1, Min(at) - 1)>> \o Split(SubSeq(s, Min(at) + 1, Len(s)), sep)

----------------------------------------------------------------------------
(* The movie table the search reads, with relations loaded *)

\* the day "new Date()" falls on while the model runs
Today == 1000
YearDays == 365

GenreById(id) == CHOOSE g \in GenrePool : g.id = id

TranslationHe == CHOOSE t \in MovieTranslationPool : t.language = he_IL /\ t.title # <<>>
TranslationEn == CHOOSE t \in MovieTranslationPool : t.language = en_US

Catalogue ==
    {Populate(MovieRow("m1", "tt1", 10, 8, 100, Date(900)),
              <<TranslationHe, TranslationEn>>, <<GenreById("g2")>>, <<>>, <<CastPool[2]>>),
     Populate(MovieRow("m2", "tt2", 20, 7, 70, Date(950)),
              <<TranslationEn>>, <<GenreById("g3")>>, <<>>, <<>>),
     Populate(MovieRow("m3", "tt3", 30, 9, 70, Date(600)),
              <<TranslationEn>>, <<GenreById("g2")>>, <<>>, <<>>),
     Populate(MovieRow("m4", "tt4", 40, 6, 70, Date(1000)),
              <<>>, <<GenreById("g2"), GenreById("g3")>>, <<>>, <<>>),
     Populate(MovieRow("m5", "tt5", 50, 5, 20, Null),
              <<TranslationEn>>, <<>>, <<>>, <<>>)}

----------------------------------------------------------------------------
(* State *)

VARIABLES
    cache,      \* the key-value cache: key -> [value, ttl], ttl the seconds
                \* the entry has left
    req,        \* the search requests in flight, one record per slot
    calls,      \* searchNowPlayingMovies calls begun so far
    lastWrite,  \* the filters and envelope of the latest call, once it wrote
                \* the cache and while no other call has overwritten its entry
    posterRows, \* the movieTranslation rows the poster query reads
    posterCall, \* the last getBestRatedMoviePosters call and what it returned
    posterCalls,\* getBestRatedMoviePosters calls made so far
    proj,       \* a projection: its input, the translations picked, its output
    paging,     \* the pagination arithmetic: its input and its output
    movies,     \* the movie table, each row with its relations loaded
    genres,     \* the genre table, each row with its translations
    writes,     \* the upsert calls in flight, one record per slot
    genreCall,  \* a listGenres call: its language and what it returned
    upserts     \* the upsert calls begun so far, and the latest call once it
                \* returned if it ran with no other upsert call in flight

vars == <<cache, req, calls, lastWrite, posterRows, posterCall, posterCalls, proj, paging,
          movies, genres, writes, genreCall, upserts>>

Idle == [pc |-> "idle"]

\* no upsert call in flight
NoWrites == [w \in 1..NumWriters |-> Idle]

NoUpserts == [count |-> 0, last |-> <<>>]

----------------------------------------------------------------------------
(* searchNowPlayingMovies: filter, ordering, pagination *)

Max2(a, b) == IF a >= b THEN a ELSE b
Min2(a, b) == IF a <= b THEN a ELSE b

DefaultSort == <<"rating", ":", "desc">>

\* the where clause before the actor filter is resolved
BaseWhere(q, selectedGenres) ==
    [releaseDate |-> [lte |-> Today, gte |-> Today - YearDays],
     translations |-> IF Len(q) > 0 THEN <<q>> ELSE <<>>,
     genres |-> IF Len(selectedGenres) > 0 THEN <<selectedGenres>> ELSE <<>>,
     tmdbId |-> <<>>]

\* the movie ids of a credits answer: credits.cast entries with a numeric id
MovieIds(cast) ==
    LET numeric == {i \in 1..Len(cast) : cast[i] # <<>>}
    IN [i \in 1..Cardinality(numeric) |->
            Pick(cast, numeric)[i][1]]

\* where.tmdbId after the credits of the first candidate arrived
ActorFilter(cast) ==
    LET movieIds == MovieIds(cast)
    IN IF Len(movieIds) > 0 THEN movieIds ELSE <<-1>>

\* a row satisfies a Prisma MovieWhereInput
Matches(movie, where) ==
    /\ movie.releaseDate # Null
    /\ movie.releaseDate[2] <= where.releaseDate.lte
    /\ movie.releaseDate[2] >= where.releaseDate.gte
    /\ where.translations # <<>> =>
        \E t \in Range(movie.translations) :
            \/ ContainsInsensitive(t.title, where.translations[1])
            \/ ContainsInsensitive(t.originalTitle, where.translations[1])
    /\ where.genres # <<>> =>
        \E g \in Range(movie.genres) : g.tmdbId \in Range(where.genres[1])
    /\ where.tmdbId # <<>> => movie.tmdbId \in Range(where.tmdbId[1])

\* the [field, direction] the sort token is destructured to
OrderBy(sort) ==
    LET parts == Split(IF sort # <<>> THEN sort ELSE DefaultSort, ":")
    IN [field |-> parts[1][1], direction |-> parts[2][1]]

\* a null sorts after every number: last ascending, first descending
NullsLast == 1000000

\* the value a row is ordered by
SortValueOf(movie, field) ==
    CASE field = "rating" -> IF movie.rating = Null THEN NullsLast ELSE movie.rating[2]
      [] field = "votes" -> IF movie.votes = Null THEN NullsLast ELSE movie.votes[2]
      [] field = "releaseDate" -> movie.releaseDate[2]
      [] field = "runtime" -> movie.runtime

\* the orders in which findMany may return the matching rows: sorted by the
\* one field, rows that tie on it in any order
Listings(where, orderBy) ==
    LET hits == {m \in movies : Matches(m, where)}
        n == Cardinality(hits)
    IN {s \in [1..n -> hits] :
            /\ Range(s) = hits
            /\ \A i \in 1..(n - 1) :
                IF orderBy.direction = "asc"
                THEN SortValueOf(s[i], orderBy.field) <= SortValueOf(s[i + 1], orderBy.field)
                ELSE SortValueOf(s[i], orderBy.field) >= SortValueOf(s[i + 1], orderBy.field)}

\* the columns of the movie table and the directions an orderBy may name;
\* findMany rejects any other with a validation error
MovieColumns ==
    {"id", "imdbId", "tmdbId", "rating", "votes", "status", "runtime", "releaseDate",
     "originalLanguage", "createdAt", "updatedAt"}

PrismaAccepts(orderBy) ==
    orderBy.field \in MovieColumns /\ orderBy.direction \in {"asc", "desc"}

\* countMovies
countMovies(where) == Cardinality({m \in movies : Matches(m, where)})

Skip(page, pageSize) == (Max2(1, page) - 1) * Max2(1, pageSize)

Take(pageSize) == Max2(1, Min2(100, pageSize))

\* skip / take applied to an ordered listing
Window(listing, skip, take) ==
    SubSeq(listing, skip + 1, Min2(Len(listing), skip + take))

\* TotalPages rounding down
TotalPagesFloor(total, take) ==
    LET pages == total \div take
    IN IF pages # 0 THEN pages ELSE 1

\* Math.ceil(total / take) || 1
TotalPages(total, take) ==
    LET pages == (total + take - 1) \div take
    IN IF pages # 0 THEN pages ELSE 1

Envelope(items, total, page, pageSize) ==
    [items |-> items, total |-> total, page |-> page, pageSize |-> Take(pageSize),
     totalPages |-> TotalPages(total, Take(pageSize))]

----------------------------------------------------------------------------
(* The key-value cache (redis.get / redis.set with { ex }) *)

\* the option a get answers with: nothing for a missing or expired key
RedisGet(key) ==
    IF key \in DOMAIN cache /\ cache[key].ttl > 0
    THEN <<cache[key].value>>
    ELSE <<>>

\* the cache after set(key, value, { ex }): the entry lives ex seconds
RedisSet(key, value, ex) ==
    [k \in DOMAIN cache \cup {key} |->
        IF k = key THEN [value |-> value, ttl |-> ex] ELSE cache[k]]

\* the cache after seconds passed: every entry is that much closer to its
\* expiry and the expired ones are gone
Elapse(seconds) ==
    [k \in {x \in DOMAIN cache : cache[x].ttl > seconds} |->
        [cache[k] EXCEPT !.ttl = @ - seconds]]

\* SearchTtl of a day
SearchTtlDay == 60 * 60 * 24

SearchTtl == 60 * 60 * 12
PosterTtl == 60 * 60 * 24


----------------------------------------------------------------------------
(* The external people API (tmdb.search.people, tmdb.people.movieCredits) *)

\* candidate lists a people search may answer with
PeopleResults == {<<>>, <<[id |-> 1]>>, <<[id |-> 2], [id |-> 1]>>}

\* credits.cast per person: entries with a numeric movie id <<n>> or
\* without one <<>>
MovieCredits(personId) ==
    IF personId = 1 THEN << <<10>>, <<>>, <<20>> >> ELSE <<>>

----------------------------------------------------------------------------
(* searchNowPlayingMovies *)

Searches == {<<>>, <<" ", "B">>}
ActorNames == {<<>>, <<"x", " ">>}
Sorts == {<<"rating", ":", "desc">>, <<"votes", ":", "asc">>}
GenreSelections == {<<>>, <<7>>}
Pages == {1, 2}
PageSizes == {1, 2}

\* the filters a caller passes; search and actorName stand for
\* searchDebounced ?? search and actorNameDebounced ?? actorName
AllFilters ==
    [search : Searches, actorName : ActorNames, sort : Sorts,
     selectedGenres : GenreSelections, page : Pages, pageSize : PageSizes,
     language : Languages]

\* the call with every filter left at its first value
PlainFilters ==
    [search |-> <<>>, actorName |-> <<>>, sort |-> DefaultSort, selectedGenres |-> <<>>,
     page |-> 1, pageSize |-> 1, language |-> he_IL]

\* the filters the model calls with: PlainFilters with one field changed,
\* and each of these that keeps the plain page, page size and language once
\* more with an actor name
MovieFilters ==
    {f \in AllFilters :
        LET varied == {k \in DOMAIN f : f[k] # PlainFilters[k]}
        IN \/ varied \subseteq {"actorName"}
           \/ \E k \in DOMAIN f : varied = {k}
           \/ \E k \in {"search", "sort", "selectedGenres"} : varied = {k, "actorName"}}

\* search:<language>:<md5 of JSON.stringify({q, actorQuery, sort, selectedGenres})>;
\* the digest is taken to be free of collisions
CacheKey(language, q, actorQuery, sort, selectedGenres) ==
    <<"search", language, q, actorQuery, sort, selectedGenres>>

\* Between the cache read and the cache write, and again after the cache
\* write, a request touches nothing another request can see (the external
\* API, the read-only movie table, the hand-over to its caller), so these
\* steps commute with every step of the other requests; the model runs
\* them without interruption.
NoneComputing ==
    \A r \in 1..NumReq : req[r].pc \notin {"people", "credits", "query", "return", "failed"}

\* the cache key of a call with these filters
KeyOf(filters) ==
    CacheKey(filters.language, Trim(filters.search), Trim(filters.actorName),
             filters.sort, filters.selectedGenres)

\* the call starts: destructuring, trimming, cache key
Call(r, filters) ==
    /\ NoneComputing
    /\ req[r].pc = "idle"
    /\ \A other \in 1..(r - 1) : req[other].pc # "idle"
    /\ calls < MaxCalls
    /\ calls' = calls + 1
    /\ lastWrite' = <<>>
    /\ LET q == Trim(filters.search)
           actorQuery == Trim(filters.actorName)
           key == CacheKey(filters.language, q, actorQuery, filters.sort,
                           filters.selectedGenres)
       IN req' = [req EXCEPT ![r] =
            [pc |-> "get", filters |-> filters, callNo |-> calls + 1,
             q |-> q, actorQuery |-> actorQuery, key |-> key,
             where |-> <<>>, people |-> <<>>, actorThrew |-> FALSE,
             afterSame |-> /\ RedisGet(key) # <<>>
                           /\ lastWrite # <<>>
                           /\ lastWrite[1].filters = filters
                           /\ \A o \in 1..NumReq : req[o].pc # "idle" => req[o].key # key,
             first |-> lastWrite,
             expired |-> /\ RedisGet(key) = <<>>
                         /\ lastWrite # <<>>
                         /\ KeyOf(lastWrite[1].filters) = key,
             hit |-> FALSE, result |-> <<>>, failure |-> <<>>,
             queriedStore |-> FALSE, calledApi |-> FALSE, wroteCache |-> FALSE]]
    /\ UNCHANGED <<cache, posterRows, posterCall, posterCalls, proj, paging, movies, genres, writes, genreCall, upserts>>

\* CacheGet that never takes the cached envelope
CacheGetAlwaysMiss(r) ==
    /\ NoneComputing
    /\ req[r].pc = "get"
    /\ req' = [req EXCEPT ![r].pc = IF Len(req[r].actorQuery) > 0 THEN "people" ELSE "query",
                          ![r].where = <<BaseWhere(req[r].q, req[r].filters.selectedGenres)>>]
    /\ UNCHANGED <<cache, calls, lastWrite, posterRows, posterCall, posterCalls, proj, paging, movies, genres, writes, genreCall, upserts>>

\* await redis.get(key): a hit returns the cached envelope, a miss builds
\* the where clause up to the actor filter
CacheGet(r) ==
    /\ NoneComputing
    /\ req[r].pc = "get"
    /\ LET cached == RedisGet(req[r].key)
       IN IF cached # <<>>
          THEN req' = [req EXCEPT ![r].pc = "return", ![r].hit = TRUE,
                                  ![r].result = cached]
          ELSE req' = [req EXCEPT ![r].pc = IF Len(req[r].actorQuery) > 0
                                           THEN "people" ELSE "query",
                                  ![r].where = <<BaseWhere(req[r].q,
                                                 req[r].filters.selectedGenres)>>]
    /\ UNCHANGED <<cache, calls, lastWrite, posterRows, posterCall, posterCalls, proj, paging, movies, genres, writes, genreCall, upserts>>

\* await tmdb.search.people(...) answers; without a first candidate the
\* filter becomes the impossible id
PeopleAnswer(r, results) ==
    /\ req[r].pc = "people"
    /\ req' = [req EXCEPT ![r].pc = IF results # <<>> THEN "credits" ELSE "query",
                          ![r].people = <<results>>,
                          ![r].calledApi = TRUE,
                          ![r].where = IF results # <<>> THEN @
                                       ELSE <<[@[1] EXCEPT !.tmdbId = << <<-1>> >>]>>]
    /\ UNCHANGED <<cache, calls, lastWrite, posterRows, posterCall, posterCalls, proj, paging, movies, genres, writes, genreCall, upserts>>

\* ActorMatch taking the last candidate
ActorMatchLast(results) == results[Len(results)]

\* the first candidate of the people search
ActorMatch(results) == results[1]

\* await tmdb.people.movieCredits(actorMatch.id) answers
CreditsAnswer(r) ==
    /\ req[r].pc = "credits"
    /\ LET actorMatch == ActorMatch(req[r].people[1])
           credits == MovieCredits(actorMatch.id)
       IN req' = [req EXCEPT ![r].pc = "query",
                             ![r].calledApi = TRUE,
                             ![r].where = <<[@[1] EXCEPT !.tmdbId = <<ActorFilter(credits)>>]>>]
    /\ UNCHANGED <<cache, calls, lastWrite, posterRows, posterCall, posterCalls, proj, paging, movies, genres, writes, genreCall, upserts>>

\* either external call throws: the catch block logs and the where clause
\* stays as it was
ActorLookupThrows(r) ==
    /\ req[r].pc \in {"people", "credits"}
    /\ req' = [req EXCEPT ![r].pc = "query", ![r].calledApi = TRUE,
                          ![r].actorThrew = TRUE]
    /\ UNCHANGED <<cache, calls, lastWrite, posterRows, posterCall, posterCalls, proj, paging, movies, genres, writes, genreCall, upserts>>

\* await Promise.all([listing, count]) and the envelope built from them;
\* the people answer went out of scope with the try block
Query(r) ==
    /\ req[r].pc = "query"
    /\ PrismaAccepts(OrderBy(req[r].filters.sort))
    /\ LET f == req[r].filters
           where == req[r].where[1]
           skip == Skip(f.page, f.pageSize)
           take == Take(f.pageSize)
       IN \E listing \in Listings(where, OrderBy(f.sort)) :
            LET items == getMoviesWithLanguageTranslation(f.language,
                                                          Window(listing, skip, take))
                total == countMovies(where)
            IN req' = [req EXCEPT ![r].pc = "set",
                                  ![r].queriedStore = TRUE,
                                  ![r].people = <<>>,
                                  ![r].result = <<Envelope(items, total, f.page, f.pageSize)>>]
    /\ UNCHANGED <<cache, calls, lastWrite, posterRows, posterCall, posterCalls, proj, paging, movies, genres, writes, genreCall, upserts>>

\* await redis.set(key, result, { ex: 60 * 60 * 12 }) and return result
CacheSet(r) ==
    /\ NoneComputing
    /\ req[r].pc = "set"
    /\ cache' = RedisSet(req[r].key, req[r].result[1], SearchTtl)
    /\ req' = [req EXCEPT ![r].pc = "return", ![r].wroteCache = TRUE]
    /\ lastWrite' = IF req[r].callNo = calls
                     THEN <<[filters |-> req[r].filters, result |-> req[r].result[1]]>>
                     ELSE IF lastWrite # <<>> /\ KeyOf(lastWrite[1].filters) = req[r].key
                          THEN <<>> ELSE lastWrite
    /\ UNCHANGED <<calls, posterRows, posterCall, posterCalls, proj, paging, movies, genres, writes, genreCall, upserts>>

\* the caller has the envelope; the slot is free for the next call
Return(r) ==
    /\ req[r].pc = "return"
    /\ req' = [req EXCEPT ![r] = Idle]
    /\ UNCHANGED <<cache, calls, lastWrite, posterRows, posterCall, posterCalls, proj, paging, movies, genres, writes, genreCall, upserts>>

\* CacheGetThrows with the failure caught and taken for a miss
CacheGetThrowsAsMiss(r) ==
    /\ NoneComputing
    /\ req[r].pc = "get"
    /\ req' = [req EXCEPT ![r].pc = IF Len(req[r].actorQuery) > 0 THEN "people" ELSE "query",
                          ![r].failure = <<"get">>,
                          ![r].where = <<BaseWhere(req[r].q, req[r].filters.selectedGenres)>>]
    /\ UNCHANGED <<cache, calls, lastWrite, posterRows, posterCall, posterCalls, proj, paging, movies, genres, writes, genreCall, upserts>>

\* await redis.get(key) throws: nothing catches it
CacheGetThrows(r) ==
    /\ NoneComputing
    /\ req[r].pc = "get"
    /\ req' = [req EXCEPT ![r].pc = "failed", ![r].failure = <<"get">>]
    /\ UNCHANGED <<cache, calls, lastWrite, posterRows, posterCall, posterCalls, proj, paging, movies, genres, writes, genreCall, upserts>>

\* findMany rejects the orderBy made from the sort token: Promise.all
\* rejects and nothing catches it
QueryRejected(r) ==
    /\ req[r].pc = "query"
    /\ ~PrismaAccepts(OrderBy(req[r].filters.sort))
    /\ req' = [req EXCEPT ![r].pc = "failed", ![r].failure = <<"validation">>,
                          ![r].people = <<>>]
    /\ UNCHANGED <<cache, calls, lastWrite, posterRows, posterCall, posterCalls, proj, paging, movies, genres, writes, genreCall, upserts>>

\* the listing or the count throws: Promise.all rejects and nothing
\* catches it
QueryThrows(r, query) ==
    /\ req[r].pc = "query"
    /\ req' = [req EXCEPT ![r].pc = "failed", ![r].failure = <<query>>,
                          ![r].people = <<>>]
    /\ UNCHANGED <<cache, calls, lastWrite, posterRows, posterCall, posterCalls, proj, paging, movies, genres, writes, genreCall, upserts>>

\* await redis.set(...) throws, the entry written or not: nothing catches it
CacheSetThrows(r, written) ==
    /\ NoneComputing
    /\ req[r].pc = "set"
    /\ cache' = IF written THEN RedisSet(req[r].key, req[r].result[1], SearchTtl) ELSE cache
    /\ req' = [req EXCEPT ![r].pc = "failed", ![r].failure = <<"set">>]
    /\ lastWrite' = IF written /\ lastWrite # <<>> /\ KeyOf(lastWrite[1].filters) = req[r].key
                     THEN <<>> ELSE lastWrite
    /\ UNCHANGED <<calls, posterRows, posterCall, posterCalls, proj, paging, movies, genres, writes, genreCall, upserts>>

\* the caller has the failure; the slot is free for the next call
Rethrow(r) ==
    /\ req[r].pc = "failed"
    /\ req' = [req EXCEPT ![r] = Idle]
    /\ UNCHANGED <<cache, calls, lastWrite, posterRows, posterCall, posterCalls, proj, paging, movies, genres, writes, genreCall, upserts>>

\* twelve hours pass; a request is short against that, so the time passes
\* between requests
Tick ==
    /\ \A r \in 1..NumReq : req[r].pc = "idle"
    /\ cache # <<>>
    /\ cache' = Elapse(SearchTtl)
    /\ UNCHANGED <<req, calls, lastWrite, posterRows, posterCall, posterCalls, proj, paging, movies, genres, writes, genreCall, upserts>>

Init ==
    /\ cache = <<>> /\ req = [r \in 1..NumReq |-> Idle] /\ calls = 0
    /\ lastWrite = <<>>
    /\ posterRows = <<>> /\ posterCall = Idle /\ posterCalls = 0
    /\ proj = Idle /\ paging = Idle
    /\ movies = Catalogue /\ genres = {} /\ writes = NoWrites /\ genreCall = Idle
    /\ upserts = NoUpserts

Next ==
    \/ \E r \in 1..NumReq, filters \in MovieFilters : Call(r, filters)
    \/ \E r \in 1..NumReq : CacheGet(r)
    \/ \E r \in 1..NumReq, results \in PeopleResults : PeopleAnswer(r, results)
    \/ \E r \in 1..NumReq : CreditsAnswer(r)
    \/ \E r \in 1..NumReq : ActorLookupThrows(r)
    \/ \E r \in 1..NumReq : Query(r)
    \/ \E r \in 1..NumReq : CacheSet(r)
    \/ \E r \in 1..NumReq : Return(r)
    \/ Tick

Spec == Init /\ [][Next]_vars

----------------------------------------------------------------------------
(* searchNowPlayingMovies called with queries and actor names that differ in
   the whitespace around them, in both languages *)

KeySearches ==
    {<<>>, <<" ">>, <<"B">>, <<" ", "B">>, <<"B", " ">>, <<"b", " ", "B">>}

KeyActorNames == {<<>>, <<"x">>, <<"x", " ">>}

KeyFilters ==
    {[PlainFilters EXCEPT !.search = search, !.language = language] :
        search \in KeySearches, language \in Languages}
    \cup {[PlainFilters EXCEPT !.actorName = actorName, !.language = language] :
            actorName \in KeyActorNames, language \in Languages}
    \cup {[PlainFilters EXCEPT !.page = 2]}

KeysNext ==
    \/ \E r \in 1..NumReq, filters \in KeyFilters : Call(r, filters)
    \/ \E r \in 1..NumReq : CacheGet(r)
    \/ \E r \in 1..NumReq : PeopleAnswer(r, <<>>)
    \/ \E r \in 1..NumReq : Query(r)
    \/ \E r \in 1..NumReq : CacheSet(r)
    \/ \E r \in 1..NumReq : Return(r)

SpecKeys == Init /\ [][KeysNext]_vars

----------------------------------------------------------------------------
(* searchNowPlayingMovies called for pages and page sizes of any value, one
   call at a time *)

PageFilters ==
    {[PlainFilters EXCEPT !.page = page, !.pageSize = pageSize] :
        page \in (0 - 1)..3, pageSize \in {0 - 1, 0, 1, 2, 101}}

PagesNext ==
    \/ \E filters \in PageFilters : Call(1, filters)
    \/ CacheGet(1)
    \/ Query(1)
    \/ CacheSet(1)
    \/ Return(1)
    \/ Tick

SpecPages == Init /\ [][PagesNext]_vars

----------------------------------------------------------------------------
(* searchNowPlayingMovies with sort tokens of any form and with a store and
   a cache that may fail *)

\* tokens that are not <field>:<direction> over rating, votes, releaseDate
\* and asc, desc
OtherSorts ==
    {<<"rating", ":", "desc", ":", "x">>, <<"runtime", ":", "asc">>,
     <<"bogus", ":", "asc">>, <<"rating", ":", "up">>}

SortFilters == {[PlainFilters EXCEPT !.sort = sort] : sort \in Sorts \cup OtherSorts}

FailNext ==
    \/ \E r \in 1..NumReq, filters \in SortFilters : Call(r, filters)
    \/ \E r \in 1..NumReq : CacheGet(r)
    \/ \E r \in 1..NumReq : CacheGetThrows(r)
    \/ \E r \in 1..NumReq : Query(r)
    \/ \E r \in 1..NumReq : QueryRejected(r)
    \/ \E r \in 1..NumReq, query \in {"listing", "count"} : QueryThrows(r, query)
    \/ \E r \in 1..NumReq : CacheSet(r)
    \/ \E r \in 1..NumReq, written \in BOOLEAN : CacheSetThrows(r, written)
    \/ \E r \in 1..NumReq : Return(r)
    \/ \E r \in 1..NumReq : Rethrow(r)
    \/ Tick

SpecFail == Init /\ [][FailNext]_vars

----------------------------------------------------------------------------
(* MoviesDAL.getBestRatedMoviePosters *)

\* movieTranslation rows with the rating and votes of their movie
PosterRowPool ==
    {[movieId |-> "m1", language |-> he_IL, posterUrl |-> <<"p">>, rating |-> 8, votes |-> 100],
     [movieId |-> "m1", language |-> en_US, posterUrl |-> <<"q">>, rating |-> 8, votes |-> 100],
     [movieId |-> "m2", language |-> en_US, posterUrl |-> <<"r">>, rating |-> 7, votes |-> 70],
     [movieId |-> "m3", language |-> he_IL, posterUrl |-> <<"s">>, rating |-> 8, votes |-> 100],
     [movieId |-> "m4", language |-> he_IL, posterUrl |-> Null, rating |-> 9, votes |-> 70],
     [movieId |-> "m4", language |-> en_US, posterUrl |-> <<>>, rating |-> 9, votes |-> 70]}

\* PosterKey without the language
PosterKeyShared(language) == <<"bestRatedPosters", "any">>

\* bestRatedPosters:<language || 'any'>; no language is the option <<>>
PosterKey(language) ==
    <<"bestRatedPosters", IF language # <<>> THEN language[1] ELSE "any">>

\* preferredWhere: posterUrl not null, and the language when one is given
PosterWhere(row, language) ==
    /\ row.posterUrl # Null
    /\ language # <<>> => row.language = language[1]

\* rating descending, then votes descending
PosterBefore(a, b) ==
    \/ a.rating > b.rating
    \/ a.rating = b.rating /\ a.votes >= b.votes

\* the answers findMany may give: the matching rows in order, rows equal on
\* both sort columns in any order, cut to take rows
PreferredRows(language, take) ==
    LET hits == {row \in posterRows : PosterWhere(row, language)}
        n == Cardinality(hits)
    IN {SubSeq(s, 1, Min2(n, take)) :
            s \in {t \in [1..n -> hits] :
                    /\ Range(t) = hits
                    /\ \A i \in 1..(n - 1) : PosterBefore(t[i], t[i + 1])}}

\* preferred.map((p) => p.posterUrl!).filter(Boolean)
Posters(preferred) ==
    LET urls == [i \in 1..Len(preferred) |-> preferred[i].posterUrl]
    IN Pick(urls, {i \in 1..Len(urls) : Truthy(urls[i])})

Limits == 0..MaxLimit

LanguageOptions == {<<>>} \cup {<<l>> : l \in Languages}

\* one call: the cached list when there is one, else the query, the cache
\* write and the list just computed
getBestRatedMoviePosters(limit, language) ==
    /\ posterCalls < MaxPosterCalls
    /\ posterCalls' = posterCalls + 1
    /\ LET key == PosterKey(language)
           cached == RedisGet(key)
       IN IF cached # <<>>
          THEN /\ posterCall' = [pc |-> "returned", limit |-> limit, language |-> language,
                                 hit |-> TRUE, result |-> cached[1]]
               /\ cache' = cache
          ELSE \E preferred \in PreferredRows(language, limit) :
               /\ posterCall' = [pc |-> "returned", limit |-> limit, language |-> language,
                                 hit |-> FALSE, result |-> Posters(preferred)]
               /\ cache' = RedisSet(key, Posters(preferred), PosterTtl)
    /\ UNCHANGED <<req, calls, lastWrite, posterRows, proj, paging, movies, genres, writes, genreCall, upserts>>

\* twelve hours pass: half the life of a poster entry
PosterTick ==
    /\ cache # <<>>
    /\ cache' = Elapse(SearchTtl)
    /\ UNCHANGED <<req, calls, lastWrite, posterRows, posterCall, posterCalls, proj, paging, movies, genres, writes, genreCall, upserts>>

PosterInit ==
    /\ cache = <<>> /\ req = [r \in 1..NumReq |-> Idle] /\ calls = 0
    /\ lastWrite = <<>>
    /\ posterRows \in SUBSET PosterRowPool
    /\ posterCall = Idle /\ posterCalls = 0
    /\ proj = Idle /\ paging = Idle
    /\ movies = Catalogue /\ genres = {} /\ writes = NoWrites /\ genreCall = Idle
    /\ upserts = NoUpserts

PosterNext ==
    \/ \E limit \in Limits, language \in LanguageOptions :
            getBestRatedMoviePosters(limit, language)
    \/ PosterTick

SpecPosters == PosterInit /\ [][PosterNext]_vars

----------------------------------------------------------------------------
(* The pagination arithmetic of searchNowPlayingMovies on its own *)

PagingInit ==
    /\ cache = <<>> /\ req = [r \in 1..NumReq |-> Idle] /\ calls = 0
    /\ lastWrite = <<>>
    /\ posterRows = <<>> /\ posterCall = Idle /\ posterCalls = 0
    /\ proj = Idle
    /\ movies = Catalogue /\ genres = {} /\ writes = NoWrites /\ genreCall = Idle
    /\ upserts = NoUpserts
    /\ \E total \in 0..MaxTotal, pageSize \in (0 - 2)..MaxPageSize, page \in Pages :
        paging = [pc |-> "in", total |-> total, page |-> page, pageSize |-> pageSize]

\* the envelope assembled from a count of total rows
Assemble ==
    /\ paging.pc = "in"
    /\ paging' = [pc |-> "out", total |-> paging.total, page |-> paging.page,
                  pageSize |-> paging.pageSize,
                  skip |-> Skip(paging.page, paging.pageSize),
                  result |-> Envelope(<<>>, paging.total, paging.page, paging.pageSize)]
    /\ UNCHANGED <<cache, req, calls, lastWrite, posterRows, posterCall, posterCalls, proj, movies, genres, writes, genreCall, upserts>>

PagingNext == Assemble

SpecPaging == PagingInit /\ [][PagingNext]_vars

----------------------------------------------------------------------------
(* Specification of the projection *)

ProjInit ==
    /\ cache = <<>> /\ req = [r \in 1..NumReq |-> Idle] /\ calls = 0
    /\ lastWrite = <<>>
    /\ posterRows = <<>> /\ posterCall = Idle /\ posterCalls = 0
    /\ paging = Idle
    /\ movies = Catalogue /\ genres = {} /\ writes = NoWrites /\ genreCall = Idle
    /\ upserts = NoUpserts
    /\ \E movie \in ProjectionInputs, language \in Languages :
        proj = [pc |-> "in", movie |-> movie, language |-> language]

\* findByIdWithLanguageTranslation's last step: one movie is projected;
\* the translations picked on the way are kept next to the result
Transform ==
    /\ proj.pc = "in"
    /\ proj' = [pc |-> "out", movie |-> proj.movie, language |-> proj.language,
                translation |-> PickTranslation(proj.movie.translations, proj.language),
                genreTranslation |->
                    [i \in 1..Len(proj.movie.genres) |->
                        PickTranslation(proj.movie.genres[i].translations, proj.language)],
                actorTranslation |->
                    [i \in 1..Len(proj.movie.cast) |->
                        PickTranslation(proj.movie.cast[i].actor.translations, proj.language)],
                result |-> transformToLanguageSpecific(proj.movie, proj.language)]
    /\ UNCHANGED <<cache, req, calls, lastWrite, posterRows, posterCall, posterCalls, paging, movies, genres, writes, genreCall, upserts>>

\* a second movie, to list next to the drawn one
OtherMovie == Populate(MovieRow("m9", "tt9", 9, 3, 4, Null), <<>>, <<>>, <<>>, <<>>)

\* getMoviesWithLanguageTranslation on a listing the store returned
TransformListing ==
    /\ proj.pc = "in"
    /\ \E listing \in DistinctSeqs({proj.movie, OtherMovie}, 2) :
        proj' = [pc |-> "list", movie |-> proj.movie, language |-> proj.language,
                 listing |-> listing,
                 result |-> getMoviesWithLanguageTranslation(proj.language, listing)]
    /\ UNCHANGED <<cache, req, calls, lastWrite, posterRows, posterCall, posterCalls, paging, movies, genres, writes, genreCall, upserts>>

ProjNext == Transform \/ TransformListing

SpecProj == ProjInit /\ [][ProjNext]_vars

----------------------------------------------------------------------------
(* listGenres *)

\* the rows the genre table may hold; tmdbId is unique
GenreTablePool ==
    GenrePool \cup
    {[id |-> "g5", tmdbId |-> 3,
      translations |-> <<[language |-> en_US, name |-> <<"e">>]>>],
     [id |-> "g6", tmdbId |-> 50,
      translations |-> <<[language |-> he_IL, name |-> <<"h">>],
                         [language |-> en_US, name |-> <<"f">>]>>],
     [id |-> "g7", tmdbId |-> 9,
      translations |-> <<[language |-> en_US, name |-> <<>>],
                         [language |-> he_IL, name |-> <<"k">>]>>]}

\* the answers of prisma.genre.findMany({ include: { translations: true },
\* orderBy: { tmdbId: 'asc' } })
GenresFound ==
    LET n == Cardinality(genres)
    IN {s \in [1..n -> genres] :
            /\ Range(s) = genres
            /\ \A i \in 1..(n - 1) : s[i].tmdbId <= s[i + 1].tmdbId}

\* GenreTranslation without the last tier, genre.translations[0]
GenreTranslationNoAny(translations, language) ==
    LET requestedTranslation == FindByLanguage(translations, language)
        englishTranslation == FindByLanguage(translations, en_US)
    IN IF requestedTranslation # <<>> THEN requestedTranslation ELSE englishTranslation

\* requestedTranslation || englishTranslation || anyTranslation
GenreTranslation(translations, language) ==
    LET requestedTranslation == FindByLanguage(translations, language)
        englishTranslation == FindByLanguage(translations, en_US)
        anyTranslation == FirstOf(translations)
    IN IF requestedTranslation # <<>> THEN requestedTranslation
       ELSE IF englishTranslation # <<>> THEN englishTranslation
       ELSE anyTranslation

\* one { id, name } of the list returned
GenreOption(genre, language) ==
    LET translation == GenreTranslation(genre.translations, language)
    IN [id |-> IF genre.tmdbId # 0 THEN genre.tmdbId ELSE 0,
        name |-> FieldOr(translation, "name", GenrePrefix \o Digits(genre.tmdbId))]

\* listGenres(language)
listGenres(language) ==
    /\ genreCall.pc = "idle"
    /\ \E found \in GenresFound :
        genreCall' = [pc |-> "returned", language |-> language,
                      result |-> [i \in 1..Len(found) |-> GenreOption(found[i], language)]]
    /\ UNCHANGED <<cache, req, calls, lastWrite, posterRows, posterCall, posterCalls, proj,
                   paging, movies, genres, writes, upserts>>

GenresInit ==
    /\ cache = <<>> /\ req = [r \in 1..NumReq |-> Idle] /\ calls = 0
    /\ lastWrite = <<>>
    /\ posterRows = <<>> /\ posterCall = Idle /\ posterCalls = 0
    /\ proj = Idle /\ paging = Idle
    /\ movies = Catalogue /\ writes = NoWrites /\ genreCall = Idle
    /\ upserts = NoUpserts
    /\ genres \in SUBSET GenreTablePool

GenresNext == \E language \in Languages : listGenres(language)

SpecGenres == GenresInit /\ [][GenresNext]_vars

----------------------------------------------------------------------------
(* MoviesDAL.upsertBase, upsertTranslation, upsertAllTrailers *)

\* x ?? fallback on an optional argument; <<>> is an argument left out
Coalesce(x, fallback) == IF x = <<>> THEN fallback ELSE x[1]

\* the fields upsertBase takes besides id, imdbId and tmdbId
BaseFields == {"rating", "votes", "status", "runtime", "releaseDate", "originalLanguage"}

BaseArgs(id, imdbId, tmdbId, rating, votes, status, runtime, releaseDate, originalLanguage) ==
    [id |-> id, imdbId |-> imdbId, tmdbId |-> tmdbId, rating |-> rating, votes |-> votes,
     status |-> status, runtime |-> runtime, releaseDate |-> releaseDate,
     originalLanguage |-> originalLanguage]

\* the data upsertBase is called with: a rating for the stored movie tt1, a
\* new movie with every field, the stored imdbId under another id and
\* tmdbId, and a new imdbId under the tmdbId of the stored movie
BaseData ==
    {BaseArgs("m1", "tt1", 10, <<Val(9)>>, <<>>, <<>>, <<>>, <<>>, <<>>),
     BaseArgs("m8", "tt8", 80, <<Val(5)>>, <<Val(50)>>, <<"NOW_PLAYING">>, <<100>>,
              <<Date(990)>>, <<Val(he_IL)>>),
     BaseArgs("m6", "tt1", 11, <<>>, <<>>, <<>>, <<>>, <<>>, <<>>),
     BaseArgs("m7", "tt7", 10, <<>>, <<Val(1)>>, <<>>, <<>>, <<>>, <<>>)}

\* the data upsertTranslation is called with
TranslationData ==
    {[title |-> <<"n">>, originalTitle |-> <<"N">>, description |-> Null, posterUrl |-> <<"w">>],
     [title |-> <<"o">>, originalTitle |-> Null, description |-> <<"d">>, posterUrl |-> Null]}

\* the trailer lists upsertAllTrailers is called with
TrailerLists ==
    LET a == [title |-> <<"T">>, key |-> <<"1">>, language |-> en_US]
        b == [title |-> <<"U">>, key |-> <<"1">>, language |-> he_IL]
        c == [title |-> <<"V">>, key |-> <<"2">>, language |-> he_IL]
    IN {<<>>, <<a>>, <<a, c>>, <<a, b>>}

\* the movie ids translations and trailers are written for
MovieIdArgs == {"m1", "m8"}

YoutubePrefix == <<"h", "t", "t", "p", "s", ":", "/", "/", "w", "w", "w", ".", "y", "o", "u", "t", "u", "b", "e", ".", "c", "o", "m", "/", "w", "a", "t", "c", "h", "?", "v", "=">>

\* `https://www.youtube.com/watch?v=${t.key}`
TrailerUrl(key) == YoutubePrefix \o key

\* the create branch of upsertBase
BaseCreate(data) ==
    Populate([id |-> data.id, imdbId |-> data.imdbId, tmdbId |-> data.tmdbId,
              rating |-> Coalesce(data.rating, Null),
              votes |-> Coalesce(data.votes, Null),
              status |-> Coalesce(data.status, "NOW_PLAYING"),
              runtime |-> Coalesce(data.runtime, 0),
              releaseDate |-> Coalesce(data.releaseDate, Null),
              originalLanguage |-> Coalesce(data.originalLanguage, Null),
              createdAt |-> Date(1), updatedAt |-> Date(2)],
             <<>>, <<>>, <<>>, <<>>)

\* the update branch of upsertBase
BaseUpdate(row, data) ==
    [row EXCEPT !.rating = Coalesce(data.rating, Null),
                !.votes = Coalesce(data.votes, Null),
                !.status = Coalesce(data.status, "NOW_PLAYING"),
                !.runtime = Coalesce(data.runtime, 0),
                !.releaseDate = Coalesce(data.releaseDate, Null),
                !.originalLanguage = Coalesce(data.originalLanguage, Null)]

\* the create branch of upsertTranslation: { ...data, language }
TranslationCreate(language, data) ==
    [language |-> language, title |-> data.title, originalTitle |-> data.originalTitle,
     description |-> data.description, posterUrl |-> data.posterUrl]

\* the update branch of upsertTranslation: data
TranslationUpdate(row, data) ==
    [row EXCEPT !.title = data.title, !.originalTitle = data.originalTitle,
                !.description = data.description, !.posterUrl = data.posterUrl]

\* the create branch of one trailer upsert; the store gives the row its id
TrailerCreate(movieId, t) ==
    [id |-> <<movieId, TrailerUrl(t.key)>>, url |-> TrailerUrl(t.key), title |-> t.title,
     language |-> t.language, youtubeId |-> t.key]

\* the update branch of one trailer upsert
TrailerUpdate(row, t) == [row EXCEPT !.title = t.title, !.youtubeId = t.key]

\* where: { imdbId }
MovieByImdbId(imdbId) == {m \in movies : m.imdbId = imdbId}

\* where: { id }, the movie a translation or trailer connects to
MovieById(movieId) == {m \in movies : m.id = movieId}

\* the option a set of at most one row stands for
OneOf(rows) == IF rows = {} THEN <<>> ELSE <<CHOOSE row \in rows : TRUE>>

\* where: { movieId_language: { movieId, language } }
TranslationByKey(movieId, language) ==
    UNION {{t \in Range(m.translations) : t.language = language} : m \in MovieById(movieId)}

\* where: { movieId_url: { movieId, url } }
TrailerByKey(movieId, url) ==
    UNION {{t \in Range(m.trailers) : t.url = url} : m \in MovieById(movieId)}

\* the unique keys of the movie table: id, imdbId, tmdbId
MovieKeyTaken(row) ==
    \E m \in movies : m.id = row.id \/ m.imdbId = row.imdbId \/ m.tmdbId = row.tmdbId

\* the row the upsert of a call is looking for, by its unique key
UpsertWhere(call, i) ==
    CASE call.kind = "base" -> OneOf(MovieByImdbId(call.data.imdbId))
      [] call.kind = "translation" -> OneOf(TranslationByKey(call.movieId, call.language))
      [] call.kind = "trailers" ->
            OneOf(TrailerByKey(call.movieId, TrailerUrl(call.trailers[i].key)))

\* the movie table with one row replaced
WithMovie(old, new) == (movies \ {old}) \cup {new}

\* the translations with the one of the language updated
UpdatedTranslations(s, language, data) ==
    [k \in 1..Len(s) |->
        IF s[k].language = language THEN TranslationUpdate(s[k], data) ELSE s[k]]

\* the trailers with the one of the url updated
UpdatedTrailers(s, t) ==
    [k \in 1..Len(s) |->
        IF s[k].url = TrailerUrl(t.key) THEN TrailerUpdate(s[k], t) ELSE s[k]]

\* a call begins; the calls in flight are no longer alone
BeginUpsert(w, call) ==
    /\ writes[w].pc = "idle"
    /\ \A other \in 1..(w - 1) : writes[other].pc # "idle"
    /\ upserts.count < MaxWrites
    /\ LET alone == \A o \in 1..NumWriters : writes[o].pc = "idle"
           repeat == alone /\ upserts.last # <<>> /\ upserts.last[1].call = call
       IN writes' = [o \in 1..NumWriters |->
            IF o = w
            THEN [pc |-> IF call.kind = "trailers" /\ call.trailers = <<>>
                         THEN "done" ELSE "find",
                  call |-> call, i |-> 1, found |-> <<>>, prior |-> <<>>, alone |-> alone,
                  repeat |-> IF repeat THEN <<[ok |-> upserts.last[1].ok, movies |-> movies]>>
                             ELSE <<>>,
                  duplicate |-> FALSE]
            ELSE IF writes[o].pc = "idle" THEN writes[o]
            ELSE [writes[o] EXCEPT !.alone = FALSE]]
    /\ upserts' = [count |-> upserts.count + 1, last |-> <<>>]
    /\ UNCHANGED <<cache, req, calls, lastWrite, posterRows, posterCall, posterCalls, proj,
                   paging, movies, genres, genreCall>>

upsertBase(w, data) == BeginUpsert(w, [kind |-> "base", data |-> data])

upsertTranslation(w, movieId, language, data) ==
    BeginUpsert(w, [kind |-> "translation", movieId |-> movieId, language |-> language,
                    data |-> data])

upsertAllTrailers(w, movieId, trailers) ==
    BeginUpsert(w, [kind |-> "trailers", movieId |-> movieId, trailers |-> trailers])

\* UpsertFind that never finds the row
UpsertFindNone(w) ==
    /\ writes[w].pc = "find"
    /\ writes' = [writes EXCEPT ![w].pc = "write", ![w].found = <<>>]
    /\ UNCHANGED <<cache, req, calls, lastWrite, posterRows, posterCall, posterCalls, proj,
                   paging, movies, genres, genreCall, upserts>>

\* the store looks the row up by the unique key of the upsert
UpsertFind(w) ==
    /\ writes[w].pc = "find"
    /\ LET found == UpsertWhere(writes[w].call, writes[w].i)
       IN writes' = [writes EXCEPT ![w].pc = "write", ![w].found = found,
                                   ![w].prior = IF writes[w].call.kind = "base"
                                                THEN found ELSE <<>>]
    /\ UNCHANGED <<cache, req, calls, lastWrite, posterRows, posterCall, posterCalls, proj,
                   paging, movies, genres, genreCall, upserts>>

\* the call fails: the store rejected the write
UpsertThrows(w, duplicate) ==
    /\ writes' = [writes EXCEPT ![w].pc = "failed", ![w].duplicate = duplicate]
    /\ movies' = movies

\* the upsert of the call is through; a trailer list goes on to its next
\* trailer
UpsertDone(w) ==
    LET op == writes[w]
    IN writes' = [writes EXCEPT
            ![w].pc = IF op.call.kind = "trailers" /\ op.i < Len(op.call.trailers)
                      THEN "find" ELSE "done",
            ![w].i = op.i + 1,
            ![w].found = <<>>]

\* the store creates the row when the lookup found none, and updates the
\* row with the key otherwise; a create whose unique key is taken by now,
\* or whose movie does not exist, is rejected
UpsertWrite(w) ==
    /\ writes[w].pc = "write"
    /\ LET op == writes[w]
           call == op.call
       IN CASE call.kind = "base" ->
                IF op.found = <<>>
                THEN IF MovieKeyTaken(BaseCreate(call.data))
                     THEN UpsertThrows(w, MovieByImdbId(call.data.imdbId) # {})
                     ELSE /\ movies' = movies \cup {BaseCreate(call.data)}
                          /\ UpsertDone(w)
                ELSE /\ movies' = {IF m.imdbId = call.data.imdbId
                                   THEN BaseUpdate(m, call.data) ELSE m : m \in movies}
                     /\ UpsertDone(w)
            [] call.kind = "translation" ->
                IF MovieById(call.movieId) = {} THEN UpsertThrows(w, FALSE)
                ELSE LET m == CHOOSE x \in MovieById(call.movieId) : TRUE
                     IN IF op.found = <<>>
                        THEN IF TranslationByKey(call.movieId, call.language) # {}
                             THEN UpsertThrows(w, TRUE)
                             ELSE /\ movies' = WithMovie(m, [m EXCEPT !.translations =
                                        Append(@, TranslationCreate(call.language, call.data))])
                                  /\ UpsertDone(w)
                        ELSE /\ movies' = WithMovie(m, [m EXCEPT !.translations =
                                    UpdatedTranslations(@, call.language, call.data)])
                             /\ UpsertDone(w)
            [] call.kind = "trailers" ->
                IF MovieById(call.movieId) = {} THEN UpsertThrows(w, FALSE)
                ELSE LET m == CHOOSE x \in MovieById(call.movieId) : TRUE
                         t == call.trailers[op.i]
                     IN IF op.found = <<>>
                        THEN IF TrailerByKey(call.movieId, TrailerUrl(t.key)) # {}
                             THEN UpsertThrows(w, TRUE)
                             ELSE /\ movies' = WithMovie(m, [m EXCEPT !.trailers =
                                        Append(@, TrailerCreate(call.movieId, t))])
                                  /\ UpsertDone(w)
                        ELSE /\ movies' = WithMovie(m, [m EXCEPT !.trailers =
                                    UpdatedTrailers(@, t)])
                             /\ UpsertDone(w)
    /\ UNCHANGED <<cache, req, calls, lastWrite, posterRows, posterCall, posterCalls, proj,
                   paging, genres, genreCall, upserts>>

\* the call returns or throws to its caller; the slot is free again
UpsertReturn(w) ==
    /\ writes[w].pc \in {"done", "failed"}
    /\ upserts' = [upserts EXCEPT !.last =
            IF writes[w].alone
            THEN <<[call |-> writes[w].call, ok |-> writes[w].pc = "done"]>>
            ELSE <<>>]
    /\ writes' = [writes EXCEPT ![w] = Idle]
    /\ UNCHANGED <<cache, req, calls, lastWrite, posterRows, posterCall, posterCalls, proj,
                   paging, movies, genres, genreCall>>

\* the movie table the upserts start from: empty, or the movie tt1
StoreInit ==
    /\ cache = <<>> /\ req = [r \in 1..NumReq |-> Idle] /\ calls = 0
    /\ lastWrite = <<>>
    /\ posterRows = <<>> /\ posterCall = Idle /\ posterCalls = 0
    /\ proj = Idle /\ paging = Idle
    /\ genres = {} /\ writes = NoWrites /\ genreCall = Idle
    /\ upserts = NoUpserts
    /\ movies \in {{}, {m \in Catalogue : m.id = "m1"}}

StoreNext ==
    \/ \E w \in 1..NumWriters, data \in BaseData : upsertBase(w, data)
    \/ \E w \in 1..NumWriters, movieId \in MovieIdArgs, language \in Languages,
          data \in TranslationData : upsertTranslation(w, movieId, language, data)
    \/ \E w \in 1..NumWriters, movieId \in MovieIdArgs, trailers \in TrailerLists :
            upsertAllTrailers(w, movieId, trailers)
    \/ \E w \in 1..NumWriters : UpsertFind(w)
    \/ \E w \in 1..NumWriters : UpsertWrite(w)
    \/ \E w \in 1..NumWriters : UpsertReturn(w)

SpecStore == StoreInit /\ [][StoreNext]_vars

----------------------------------------------------------------------------
(* searchNowPlayingMovies, one call at a time, while upsertBase calls write
   the movie table and time passes *)

StaleFilters == {PlainFilters, [PlainFilters EXCEPT !.sort = <<"votes", ":", "asc">>]}

\* a better rating for the stored movie tt2, and a new movie inside the
\* now-playing window
StaleData ==
    {BaseArgs("m2", "tt2", 20, <<Val(9)>>, <<Val(70)>>, <<"NOW_PLAYING">>, <<90>>,
              <<Date(950)>>, <<Val(en_US)>>),
     BaseArgs("m8", "tt8", 80, <<Val(5)>>, <<Val(50)>>, <<"NOW_PLAYING">>, <<100>>,
              <<Date(990)>>, <<Val(he_IL)>>)}

\* six hours pass between requests
HalfTick ==
    /\ \A r \in 1..NumReq : req[r].pc = "idle"
    /\ cache # <<>>
    /\ cache' = Elapse(SearchTtl \div 2)
    /\ UNCHANGED <<req, calls, lastWrite, posterRows, posterCall, posterCalls, proj, paging,
                   movies, genres, writes, genreCall, upserts>>

StaleNext ==
    \/ \E filters \in StaleFilters : Call(1, filters)
    \/ CacheGet(1)
    \/ Query(1)
    \/ CacheSet(1)
    \/ Return(1)
    \/ HalfTick
    \/ \E w \in 1..NumWriters, data \in StaleData : upsertBase(w, data)
    \/ \E w \in 1..NumWriters : UpsertFind(w)
    \/ \E w \in 1..NumWriters : UpsertWrite(w)
    \/ \E w \in 1..NumWriters : UpsertReturn(w)

SpecStale == Init /\ [][StaleNext]_vars

----------------------------------------------------------------------------
(* Claims about the projection (checked under SpecProj) *)

\* what the resolution is meant to pick: the translation in the requested
\* language, else the first one supplied, else nothing
ExpectedTranslation(translations, language) ==
    IF \E t \in Range(translations) : t.language = language
    THEN <<CHOOSE t \in Range(translations) : t.language = language>>
    ELSE IF Len(translations) > 0 THEN <<Head(translations)>> ELSE <<>>

\* C8: for the movie, each genre and each cast actor, the translation picked
\* is the one in the requested language if there is one, else the first
\* element of the sequence as supplied, else none for an empty sequence; and
\* the projected title and names are taken from that translation.
C8_TranslationResolution ==
    proj.pc = "out" =>
        LET m == proj.movie
            l == proj.language
            e == ExpectedTranslation(m.translations, l)
        IN /\ proj.translation = e
           /\ (e # <<>> /\ Truthy(e[1].title)) => proj.result.title = e[1].title
           /\ \A i \in 1..Len(m.genres) :
                LET g == ExpectedTranslation(m.genres[i].translations, l)
                IN /\ proj.genreTranslation[i] = g
                   /\ (g # <<>> /\ Truthy(g[1].name)) => proj.result.genres[i].name = g[1].name
           /\ \A i \in 1..Len(m.cast) :
                LET a == ExpectedTranslation(m.cast[i].actor.translations, l)
                IN /\ proj.actorTranslation[i] = a
                   /\ (a # <<>> /\ Truthy(a[1].name)) => proj.result.cast[i].actor.name = a[1].name

\* C8 witness: the requested language is the second of two translations and
\* that one was picked; a genre fell back to its first translation.
C8_Witness ==
    /\ proj.pc = "out"
    /\ Len(proj.movie.translations) = 2
    /\ proj.movie.translations[2].language = proj.language
    /\ proj.translation = <<proj.movie.translations[2]>>
    /\ \E i \in 1..Len(proj.movie.genres) :
        /\ Len(proj.movie.genres[i].translations) = 1
        /\ proj.movie.genres[i].translations[1].language # proj.language
        /\ proj.genreTranslation[i] = <<proj.movie.genres[i].translations[1]>>

\* C9: title, genre names and actor names of a projection are never null;
\* with zero translations they are "Unknown Title", "Genre <tmdbId>" and
\* "Unknown Actor", and description, original title, poster and biography
\* are null.
C9_MissingTranslationLiterals ==
    proj.pc = "out" =>
        LET m == proj.movie
            r == proj.result
        IN /\ Truthy(r.title)
           /\ m.translations = <<>> =>
                /\ r.title = <<"U", "n", "k", "n", "o", "w", "n", " ", "T", "i", "t", "l", "e">>
                /\ r.description = Null /\ r.originalTitle = Null /\ r.posterUrl = Null
           /\ \A i \in 1..Len(m.genres) :
                /\ Truthy(r.genres[i].name)
                /\ m.genres[i].translations = <<>> =>
                     r.genres[i].name = <<"G", "e", "n", "r", "e", " ">> \o Digits(m.genres[i].tmdbId)
                /\ (m.genres[i].translations = <<>> /\ m.genres[i].tmdbId = 28) =>
                     r.genres[i].name = <<"G", "e", "n", "r", "e", " ", "2", "8">>
           /\ \A i \in 1..Len(m.cast) :
                /\ Truthy(r.cast[i].actor.name)
                /\ m.cast[i].actor.translations = <<>> =>
                     /\ r.cast[i].actor.name =
                            <<"U", "n", "k", "n", "o", "w", "n", " ", "A", "c", "t", "o", "r">>
                     /\ r.cast[i].actor.biography = Null

\* C9 witness: a projected movie without translations that has a genre and
\* a cast actor without translations.
C9_Witness ==
    /\ proj.pc = "out"
    /\ proj.movie.translations = <<>>
    /\ proj.result.title = UnknownTitle
    /\ \E i \in 1..Len(proj.movie.genres) : proj.movie.genres[i].translations = <<>>
    /\ \E i \in 1..Len(proj.movie.cast) : proj.movie.cast[i].actor.translations = <<>>

\* C10: the projection has as many genres, cast entries and trailers as the
\* movie, in the input order; credit id, character, order and the actor's
\* non-translated attributes pass through; trailers are unchanged; the
\* listing accessor returns one projection per listed movie, in listing order.
C10_ProjectionCompleteness ==
    /\ proj.pc = "out" =>
        LET m == proj.movie
            r == proj.result
        IN /\ Len(r.genres) = Len(m.genres)
           /\ \A i \in 1..Len(m.genres) :
                r.genres[i].id = m.genres[i].id /\ r.genres[i].tmdbId = m.genres[i].tmdbId
           /\ Len(r.cast) = Len(m.cast)
           /\ \A i \in 1..Len(m.cast) :
                LET c == m.cast[i]
                    o == r.cast[i]
                IN /\ o.id = c.id /\ o.character = c.character /\ o.order = c.order
                   /\ o.actor.id = c.actor.id /\ o.actor.profileUrl = c.actor.profileUrl
                   /\ o.actor.tmdbId = c.actor.tmdbId /\ o.actor.imdbId = c.actor.imdbId
                   /\ o.actor.popularity = c.actor.popularity
                   /\ o.actor.birthday = c.actor.birthday
                   /\ o.actor.deathday = c.actor.deathday
                   /\ o.actor.placeOfBirth = c.actor.placeOfBirth
           /\ \A i, j \in 1..Len(r.cast) : i < j => r.cast[i].order < r.cast[j].order
           /\ r.trailers = m.trailers
    /\ proj.pc = "list" =>
        /\ Len(proj.result) = Len(proj.listing)
        /\ \A i \in 1..Len(proj.listing) : proj.result[i].id = proj.listing[i].id

\* C10 witness: a listing of two movies was projected, the second of them
\* with two genres, two cast credits and two trailers.
C10_Witness ==
    /\ proj.pc = "list"
    /\ Len(proj.listing) = 2
    /\ proj.listing[1].id = "m9"
    /\ Len(proj.listing[2].genres) = 2
    /\ Len(proj.listing[2].cast) = 2
    /\ Len(proj.listing[2].trailers) = 2
    /\ Len(proj.result[2].genres) = 2

----------------------------------------------------------------------------
(* Claims about listGenres (checked under SpecGenres) *)

\* the name a translation gives: its own, or the synthesized one when it
\* carries none
NameOrSynthesized(translation, tmdbId) ==
    IF translation.name # <<>> THEN translation.name
    ELSE <<"G", "e", "n", "r", "e", " ">> \o Digits(tmdbId)

\* the name the fallback chain asks for
ExpectedGenreName(genre, language) ==
    LET in(l) == {t \in Range(genre.translations) : t.language = l}
    IN IF in(language) # {} THEN NameOrSynthesized(CHOOSE t \in in(language) : TRUE, genre.tmdbId)
       ELSE IF in(en_US) # {} THEN NameOrSynthesized(CHOOSE t \in in(en_US) : TRUE, genre.tmdbId)
       ELSE IF genre.translations # <<>>
            THEN NameOrSynthesized(Head(genre.translations), genre.tmdbId)
       ELSE <<"G", "e", "n", "r", "e", " ">> \o Digits(genre.tmdbId)

\* C11: listGenres returns one {id, name} per genre, ascending by external
\* id; the name is that of the translation in the requested language, else
\* of the en_US translation, else of the first translation, else
\* "Genre <tmdbId>" (also when the translation taken carries an empty name);
\* a genre whose only translation is in neither language gets that
\* translation's name.
C11_GenreFallbackChain ==
    genreCall.pc = "returned" =>
        LET r == genreCall.result
            l == genreCall.language
        IN /\ Len(r) = Cardinality(genres)
           /\ {r[i].id : i \in 1..Len(r)} = {g.tmdbId : g \in genres}
           /\ \A i, j \in 1..Len(r) : i < j => r[i].id < r[j].id
           /\ \A i \in 1..Len(r) :
                LET g == CHOOSE x \in genres : x.tmdbId = r[i].id
                IN /\ r[i].name = ExpectedGenreName(g, l)
                   /\ (/\ Len(g.translations) = 1
                       /\ g.translations[1].language \notin {l, en_US}
                       /\ g.translations[1].name # <<>>) =>
                        r[i].name = g.translations[1].name

\* C11 witness: the en_US list of several genres holds, for a genre whose
\* only translation is he_IL, that translation's name.
C11_Witness ==
    /\ genreCall.pc = "returned" /\ genreCall.language = en_US
    /\ Len(genreCall.result) >= 3
    /\ \E i \in 1..Len(genreCall.result) :
        /\ genreCall.result[i].id = 7
        /\ genreCall.result[i].name = <<"x">>

----------------------------------------------------------------------------
(* Claims about the upserts (checked under SpecStore) *)

\* C12: upsertBase on a movie that exists updates only the fields supplied:
\* a field the call left out (rating, votes, status, runtime, releaseDate,
\* originalLanguage) keeps its stored value, and id, imdbId and tmdbId are
\* never changed by the update.
C12_UpdateKeepsUnsuppliedFields ==
    \A w \in 1..NumWriters :
        LET op == writes[w]
        IN (op.pc = "done" /\ op.call.kind = "base" /\ op.alone /\ op.prior # <<>>) =>
            LET data == op.call.data
                prior == op.prior[1]
                now == CHOOSE m \in movies : m.imdbId = data.imdbId
            IN /\ now.id = prior.id /\ now.imdbId = prior.imdbId /\ now.tmdbId = prior.tmdbId
               /\ \A f \in {"rating", "votes", "status", "runtime", "releaseDate",
                            "originalLanguage"} :
                    data[f] = <<>> => now[f] = prior[f]

----------------------------------------------------------------------------
(* Claims about searchNowPlayingMovies (checked under Spec) *)

Missed(r) == req[r].pc \in {"set", "return"} /\ ~req[r].hit

\* C1: when the actor lookup throws, the search does not fail and matches
\* no movie: the envelope has no items and total 0.
C1_ActorFailureMatchesNothing ==
    \A r \in 1..NumReq :
        (Missed(r) /\ req[r].actorThrew) =>
            req[r].result[1].items = <<>> /\ req[r].result[1].total = 0

\* the movie ids the first candidate's credits carry
FirstCandidateIds(results) ==
    IF results = <<>> THEN {}
    ELSE LET cast == MovieCredits(results[1].id)
         IN {cast[i][1] : i \in {j \in 1..Len(cast) : cast[j] # <<>>}}

\* C2: with an actor query, when the people search answers no candidate or
\* the first candidate has no movie credits, the filter is the impossible id
\* -1 and a miss returns no items and total 0 whatever the other filters
\* are; otherwise the filter is the first candidate's movie ids.
C2_NoCandidateMatchesNothing ==
    \A r \in 1..NumReq :
        /\ (req[r].pc = "query" /\ Len(req[r].actorQuery) > 0 /\ ~req[r].actorThrew) =>
            LET ids == FirstCandidateIds(req[r].people[1])
            IN /\ req[r].where[1].tmdbId # <<>>
               /\ Range(req[r].where[1].tmdbId[1]) = IF ids = {} THEN {-1} ELSE ids
        /\ (Missed(r) /\ req[r].where[1].tmdbId = << <<-1>> >>) =>
            req[r].result[1].items = <<>> /\ req[r].result[1].total = 0

\* C2 witness: a miss whose text query matches stored movies returned the
\* empty envelope because the actor filter was the impossible id.
C2_Witness ==
    \E r \in 1..NumReq :
        /\ req[r].pc = "return" /\ ~req[r].hit
        /\ Len(req[r].actorQuery) > 0 /\ Len(req[r].q) > 0
        /\ req[r].where[1].tmdbId = << <<-1>> >>
        /\ req[r].result[1].total = 0
        /\ countMovies(BaseWhere(req[r].q, req[r].filters.selectedGenres)) > 0

\* C3: a call that follows a call with identical filters which missed and
\* wrote the cache, the entry unexpired and not overwritten, returns the
\* envelope the first call returned, and queries neither the store nor the
\* external API and writes no cache entry.
C3_SecondCallServedFromCache ==
    \A r \in 1..NumReq :
        (req[r].pc # "idle" /\ req[r].afterSame) =>
            /\ req[r].pc \in {"get", "return"}
            /\ ~req[r].queriedStore /\ ~req[r].calledApi /\ ~req[r].wroteCache
            /\ req[r].pc = "return" =>
                /\ req[r].hit
                /\ req[r].result = <<req[r].first[1].result>>

\* C3 witness: the second of two identical calls returned from the cache.
C3_Witness ==
    \E r \in 1..NumReq :
        /\ req[r].pc = "return" /\ req[r].afterSame /\ req[r].hit
        /\ req[r].callNo = 2
        /\ req[r].result[1].total > 0

\* the where clauses the code can build for these filters
WheresFor(f) ==
    LET base == BaseWhere(Trim(f.search), f.selectedGenres)
    IN IF Len(Trim(f.actorName)) = 0 THEN {base}
       ELSE {base} \cup {[base EXCEPT !.tmdbId = <<ActorFilter(MovieCredits(p[1].id))>>] :
                            p \in PeopleResults \ {<<>>}}
                   \cup {[base EXCEPT !.tmdbId = << <<-1>> >>]}

\* the envelopes a computation from the store can give for these filters
EnvelopesFor(f) ==
    UNION {{Envelope(getMoviesWithLanguageTranslation(f.language,
                        Window(l, Skip(f.page, f.pageSize), Take(f.pageSize))),
                     countMovies(w), f.page, f.pageSize) :
                l \in Listings(w, OrderBy(f.sort))} : w \in WheresFor(f)}

\* C4: every envelope a request receives, from the cache or computed, is an
\* envelope for that request's own filters, page and page size included.
C4_EnvelopeBelongsToRequest ==
    \A r \in 1..NumReq :
        req[r].pc = "return" => req[r].result[1] \in EnvelopesFor(req[r].filters)

\* a sort token of the form the search takes
WellFormedSort(sort) ==
    \E field \in {"rating", "votes", "releaseDate"}, direction \in {"asc", "desc"} :
        sort = <<field, ":", direction>>

\* C14: a call whose sort token is not <field>:<direction> with a field in
\* {rating, votes, releaseDate} and a direction in {asc, desc} fails: it
\* never runs the listing, builds no envelope and writes no cache entry.
C14_BadSortTokenRejected ==
    \A r \in 1..NumReq :
        (req[r].pc # "idle" /\ ~WellFormedSort(req[r].filters.sort)) =>
            /\ ~req[r].queriedStore /\ ~req[r].wroteCache
            /\ req[r].pc \notin {"set", "return"}

\* C15: a failure of the cache read, the listing, the count or the cache
\* write ends the call with that failure: no envelope is returned and no
\* step follows it; after a failure of the cache read, the listing or the
\* count the call has written no cache entry.
C15_MandatoryFailuresPropagate ==
    \A r \in 1..NumReq :
        (req[r].pc # "idle" /\ req[r].failure # <<>>) =>
            /\ req[r].pc = "failed"
            /\ ~req[r].hit /\ ~req[r].wroteCache
            /\ req[r].failure[1] # "set" =>
                ~req[r].queriedStore /\ req[r].result = <<>>

\* C15 witness: the count failed for a call with a well-formed sort token
\* while the cache holds no entry under its key.
C15_Witness ==
    \E r \in 1..NumReq :
        /\ req[r].pc = "failed" /\ req[r].failure = <<"count">>
        /\ WellFormedSort(req[r].filters.sort)
        /\ req[r].key \notin DOMAIN cache

\* C16 on the states: an entry never has more than twelve hours left; a
\* miss leaves the envelope it returns as the whole entry, with twelve hours
\* to live; a hit is served from an entry with time left; and a call that
\* finds the entry of the latest write under its key expired is not served
\* from the cache: it queries the store and overwrites the entry.
TtlRespected ==
    /\ \A key \in DOMAIN cache : cache[key].ttl > 0 /\ cache[key].ttl <= 43200
    /\ \A r \in 1..NumReq :
        /\ (req[r].pc = "return" /\ ~req[r].hit) =>
            /\ req[r].queriedStore /\ req[r].wroteCache
            /\ req[r].key \in DOMAIN cache
            /\ cache[req[r].key] = [value |-> req[r].result[1], ttl |-> 43200]
        /\ (req[r].pc = "return" /\ req[r].hit) =>
            /\ req[r].key \in DOMAIN cache
            /\ cache[req[r].key].ttl > 0
            /\ req[r].result = <<cache[req[r].key].value>>
        /\ (req[r].pc = "return" /\ req[r].expired) => ~req[r].hit

\* C16 on the steps: a step that changes the movie table leaves the cache
\* as it is, and the time an entry has left never grows except by a cache
\* write of a request.
StoreWritesKeepCache ==
    /\ movies' # movies => cache' = cache
    /\ \A key \in DOMAIN cache :
        (key \in DOMAIN cache' /\ cache'[key].ttl > cache[key].ttl) =>
            \E r \in 1..NumReq : req[r].pc = "set" /\ req'[r].pc = "return" /\ req[r].key = key

\* C16: a search envelope is cached with a twelve-hour TTL and is never
\* served after it expired: the first search with the key after the expiry
\* queries the store again and overwrites the entry wholesale; store writes
\* never change or remove a cache entry, so an entry is stale only until its
\* TTL runs out.
C16_TtlBoundsStaleness == []TtlRespected /\ [][StoreWritesKeepCache]_vars

\* C16 witness: after an upsert changed the store and the entry expired, an
\* identical search was computed anew, returned another envelope than the
\* first and left it as the entry.
C16_Witness ==
    \E r \in 1..NumReq :
        /\ req[r].pc = "return" /\ req[r].expired /\ ~req[r].hit
        /\ req[r].first[1].filters = req[r].filters
        /\ req[r].first[1].result # req[r].result[1]
        /\ cache[req[r].key].value = req[r].result[1]

Max(S) == CHOOSE x \in S : \A y \in S : x >= y

\* a text without the whitespace around it: from its first to its last
\* character that is not a space
Core(s) ==
    LET inner == {i \in 1..Len(s) : s[i] # " "}
    IN IF inner = {} THEN <<>> ELSE SubSeq(s, Min(inner), Max(inner))

\* two filter sets agree on language, query and actor query up to the
\* whitespace around them, sort and genre list
SameSemantic(f, g) ==
    /\ f.language = g.language
    /\ Core(f.search) = Core(g.search)
    /\ Core(f.actorName) = Core(g.actorName)
    /\ f.sort = g.sort
    /\ f.selectedGenres = g.selectedGenres

\* C17: two calls have the same cache key exactly when they agree on
\* language, query and actor query without the whitespace around them, sort
\* and genre list; a call reads and writes the entry under its key only, so
\* calls that differ only in such whitespace share an entry and calls in
\* different languages never do.
C17_KeyOfSemanticFilters ==
    \A r \in 1..NumReq :
        req[r].pc # "idle" =>
            /\ \A o \in 1..NumReq :
                req[o].pc # "idle" =>
                    ((req[r].key = req[o].key) <=> SameSemantic(req[r].filters, req[o].filters))
            /\ req[r].first # <<>> =>
                ((req[r].key = KeyOf(req[r].first[1].filters))
                    <=> SameSemantic(req[r].filters, req[r].first[1].filters))
            /\ (req[r].pc = "return" /\ req[r].hit) =>
                req[r].result = <<cache[req[r].key].value>>
            /\ (req[r].pc = "return" /\ req[r].wroteCache) =>
                cache[req[r].key].value = req[r].result[1]
            /\ (req[r].first # <<>> /\ req[r].pc = "return"
                    /\ req[r].first[1].filters.language # req[r].filters.language) =>
                \/ ~req[r].hit
                \/ req[r].key \in DOMAIN cache /\ req[r].key # KeyOf(req[r].first[1].filters)

\* C17 witness: a call with the query " B" was served the entry the call
\* with the query "B" wrote just before.
C17_Witness ==
    \E r \in 1..NumReq :
        /\ req[r].pc = "return" /\ req[r].hit
        /\ req[r].filters.search = <<" ", "B">>
        /\ req[r].first # <<>>
        /\ req[r].first[1].filters.search = <<"B">>
        /\ req[r].result[1] = req[r].first[1].result
        /\ req[r].result[1].total > 0

\* C18: on a miss, whatever page and pageSize were asked for, the envelope
\* reports a page P >= 1 and its items are the sorted matching movies from
\* offset (P - 1) * S, at most S of them, S the pageSize the envelope
\* reports.
C18_ItemsAreTheReportedPage ==
    \A r \in 1..NumReq :
        Missed(r) =>
            LET e == req[r].result[1]
                f == req[r].filters
            IN /\ e.page >= 1
               /\ e.pageSize >= 1
               /\ \E listing \in Listings(req[r].where[1], OrderBy(f.sort)) :
                    e.items = getMoviesWithLanguageTranslation(f.language,
                                SubSeq(listing, (e.page - 1) * e.pageSize + 1,
                                       Min2(Len(listing), e.page * e.pageSize)))

----------------------------------------------------------------------------
(* Claims about the pagination arithmetic (checked under SpecPaging) *)

\* C5: the envelope's pageSize is the requested size clamped to [1, 100]
\* and totalPages is the least number of such pages that holds total rows,
\* at least 1; total 25 with pageSize 24 gives 2, total 0 gives 1.
C5_PaginationArithmetic ==
    paging.pc = "out" =>
        LET e == paging.result
            clamped == IF paging.pageSize < 1 THEN 1
                       ELSE IF paging.pageSize > 100 THEN 100 ELSE paging.pageSize
        IN /\ e.pageSize = clamped
           /\ e.total = paging.total
           /\ e.totalPages >= 1
           /\ e.totalPages * e.pageSize >= e.total
           /\ e.total > 0 => (e.totalPages - 1) * e.pageSize < e.total
           /\ e.total = 0 => e.totalPages = 1
           /\ (e.total = 25 /\ paging.pageSize = 24) => e.totalPages = 2

\* C5 witness: 25 rows at 24 per page were assembled into 2 pages.
C5_Witness ==
    /\ paging.pc = "out" /\ paging.total = 25 /\ paging.pageSize = 24
    /\ paging.result.totalPages = 2

----------------------------------------------------------------------------
(* Claims about getBestRatedMoviePosters (checked under SpecPosters) *)

\* C6: every call returns at most limit URLs and none of them is null.
C6_AtMostLimitPosters ==
    posterCall.pc = "returned" =>
        /\ Len(posterCall.result) <= posterCall.limit
        /\ \A i \in 1..Len(posterCall.result) : posterCall.result[i] # Null

\* the poster URLs of the translations in one language
PostersIn(language) ==
    {row.posterUrl : row \in {x \in posterRows : x.language = language}}

\* C7: each language has its own cache entry, bestRatedPosters:<language>,
\* no language has bestRatedPosters:any, and a call with a language returns
\* only poster URLs of translations in that language.
C7_PostersScopedByLanguage ==
    /\ \A l \in Languages :
        /\ PosterKey(<<l>>) = <<"bestRatedPosters", l>>
        /\ PosterKey(<<l>>) \in DOMAIN cache =>
            Range(cache[PosterKey(<<l>>)].value) \subseteq PostersIn(l)
    /\ PosterKey(<<>>) = <<"bestRatedPosters", "any">>
    /\ (posterCall.pc = "returned" /\ posterCall.language # <<>>) =>
        Range(posterCall.result) \subseteq PostersIn(posterCall.language[1])

\* C7 witness: a call for en_US was served from its own entry while the
\* he_IL entry holds other posters.
C7_Witness ==
    /\ posterCall.pc = "returned" /\ posterCall.hit
    /\ posterCall.language = <<en_US>> /\ posterCall.result # <<>>
    /\ PosterKey(<<he_IL>>) \in DOMAIN cache
    /\ cache[PosterKey(<<he_IL>>)].value # <<>>
    /\ cache[PosterKey(<<he_IL>>)].value # posterCall.result

====
